---- MODULE Spec2Model ----
(***************************************************************************)
(* The two standalone programs of the repository:                          *)
(*   BufferFill  (src/misc/loop.c): malloc a buffer of BUFSIZE bytes and   *)
(*               store (uint8_t) i at offset i for every i < BUFSIZE;      *)
(*   TimeReader  (src/misc/mach_absolute_time.c): read the clock once and  *)
(*               printf it as "Time is %llu\n".                            *)
(* A behaviour is one process run of one of the two programs, followed by  *)
(* a second run of the same program in a fresh process.                    *)
(*                                                                         *)
(* uint64_t values are kept at their full width as four 16-bit limbs,      *)
(* least significant first, so that increments, comparisons, truncation to *)
(* uint8_t and the decimal conversion of printf are computed as the        *)
(* machine computes them.                                                  *)
(*                                                                         *)
(* The literal 1024 of `#define BUFSIZE 1024 * 1024` is scaled down to     *)
(* Kilo, so that BUFSIZE = Kilo * Kilo stays enumerable; Kilo is chosen so *)
(* that BUFSIZE exceeds 256 and the truncation to 8 bits wraps.            *)
(*                                                                         *)
(* written, mallocReq, clockReads and badStores are history variables:     *)
(* they record what the program did and are never read by it.              *)
(***************************************************************************)
EXTENDS Integers, Sequences, FiniteSets, TLC

VARIABLES
    prog,        \* which program this process runs
    run,         \* 1 for the first process run, 2 for the second
    pc,          \* position of the process in main
    dest,        \* loop.c: the pointer returned by malloc
    heap,        \* loop.c: contents of the allocated block (<<>> when none)
    i,           \* loop.c: the uint64_t loop index
    written,     \* history: offsets of the stores executed through dest, in order
    mallocReq,   \* history: sizes requested from the allocator, in order
    badStores,   \* history: stores through dest that hit no byte of a block
    time,        \* mach_absolute_time.c: the uint64_t local `time`
    clockReads,  \* history: values returned by mach_absolute_time, in order
    lineBuffered,\* whether stdout is line buffered (a terminal) or fully buffered
    stdoutBuf,   \* stdio's buffer for stdout
    stdout,      \* what has reached standard output
    status,      \* exit status of the process, NoStatus while it runs
    prev         \* results of the earlier process runs

vars == <<prog, run, pc, dest, heap, i, written, mallocReq, badStores,
          time, clockReads, lineBuffered, stdoutBuf, stdout, status, prev>>

fillVars == <<dest, heap, i, written, mallocReq, badStores>>
timeVars == <<time, clockReads, stdoutBuf, stdout>>

(***************************************************************************)
(* Bounds                                                                  *)
(***************************************************************************)
\* stands for the literal 1024 of loop.c:4
Kilo == 17

(***************************************************************************)
(* uint64_t and uint8_t                                                    *)
(***************************************************************************)
LimbBase == 2^16
ByteMod == 2^8

U64 == [1..4 -> 0..(LimbBase - 1)]
U64Zero == <<0, 0, 0, 0>>
U64Max == <<LimbBase - 1, LimbBase - 1, LimbBase - 1, LimbBase - 1>>

\* conversion of a non-negative int to uint64_t
U64FromInt(n) == <<n % LimbBase, (n \div LimbBase) % LimbBase, 0, 0>>

\* mutant of U64Inc: the index declared uint8_t, so that x + 1 wraps at 2^8
U64IncNarrow(x) == <<(x[1] + 1) % ByteMod, 0, 0, 0>>

\* x + 1 in uint64_t arithmetic (wraps at 2^64)
U64Inc(x) ==
    IF x[1] < LimbBase - 1 THEN <<x[1] + 1, x[2], x[3], x[4]>>
    ELSE IF x[2] < LimbBase - 1 THEN <<0, x[2] + 1, x[3], x[4]>>
    ELSE IF x[3] < LimbBase - 1 THEN <<0, 0, x[3] + 1, x[4]>>
    ELSE IF x[4] < LimbBase - 1 THEN <<0, 0, 0, x[4] + 1>>
    ELSE U64Zero

\* x < y on uint64_t
U64Less(x, y) ==
    IF x[4] # y[4] THEN x[4] < y[4]
    ELSE IF x[3] # y[3] THEN x[3] < y[3]
    ELSE IF x[2] # y[2] THEN x[2] < y[2]
    ELSE x[1] < y[1]

\* (uint8_t) x
U64ToU8(x) == x[1] % ByteMod

\* the offset a uint64_t index addresses, for indices below 2^31
U64Offset(x) == x[1] + LimbBase * x[2]

\* quotient and remainder of x by 10, by long division over the limbs
U64DivMod10(x) ==
    LET t4 == x[4]
        t3 == (t4 % 10) * LimbBase + x[3]
        t2 == (t3 % 10) * LimbBase + x[2]
        t1 == (t2 % 10) * LimbBase + x[1]
    IN  [q |-> <<t1 \div 10, t2 \div 10, t3 \div 10, t4 \div 10>>, r |-> t1 % 10]

(***************************************************************************)
(* loop.c                                                                  *)
(***************************************************************************)
\* #define BUFSIZE 1024 * 1024
BUFSIZE == Kilo * Kilo

NULL == "NULL"
Block == "block"
NoPointer == "unset"
NoStatus == -1
\* exit status of a process killed by SIGSEGV, as the shell reports it
SegvStatus == 128 + 11

\* the value main returns when control reaches its closing brace (C99 5.1.2.2.3)
ImplicitReturn == 0

\* mutant of MallocSize: one byte short
MallocSizeShort == BUFSIZE - 1

\* the argument of malloc
MallocSize == BUFSIZE

\* contents an uninitialised block of n bytes may hold when malloc returns it
Garbage(n) ==
    { [j \in 0..(n - 1) |-> 0],
      [j \in 0..(n - 1) |-> ByteMod - 1],
      [j \in 0..(n - 1) |-> (3 * j + 7) % ByteMod],
      [j \in 0..(n - 1) |-> j % ByteMod] }

\* mutant of StoreByte: dest[i] += (uint8_t) i
StoreByteAdd(mem, idx) ==
    [mem EXCEPT ![U64Offset(idx)] = (@ + U64ToU8(idx)) % ByteMod]

\* mutant of StoreByte: a 16-bit store of i at dest + i
StoreByteWide(mem, idx) ==
    [j \in DOMAIN mem |->
        IF j = U64Offset(idx) THEN idx[1] % ByteMod
        ELSE IF j = U64Offset(idx) + 1 THEN (idx[1] \div ByteMod) % ByteMod
        ELSE mem[j]]

\* dest[i] = (uint8_t) i;
StoreByte(mem, idx) == [mem EXCEPT ![U64Offset(idx)] = U64ToU8(idx)]

\* mutant of LoopCond: i < BUFSIZE - 1
LoopCondShort(idx) == U64Less(idx, U64FromInt(BUFSIZE - 1))

\* mutant of LoopCond: i <= BUFSIZE
LoopCondInclusive(idx) == ~U64Less(U64FromInt(BUFSIZE), idx)

\* mutant of LoopCond: i > BUFSIZE
LoopCondFlipped(idx) == U64Less(U64FromInt(BUFSIZE), idx)

\* i < BUFSIZE
LoopCond(idx) == U64Less(idx, U64FromInt(BUFSIZE))

(***************************************************************************)
(* mach_absolute_time.c                                                    *)
(***************************************************************************)
Digit == <<"0", "1", "2", "3", "4", "5", "6", "7", "8", "9">>

\* the digits of a non-zero x, most significant first: the last digit is
\* x mod 10 and the digits before it are those of x div 10
U64Digits[x \in U64] ==
    IF x = U64Zero THEN <<>>
    ELSE Append(U64Digits[U64DivMod10(x).q], Digit[U64DivMod10(x).r + 1])

\* mutant of FormatLLU: the conversion %u, which prints the low 32 bits
FormatU(x) ==
    IF x[1] = 0 /\ x[2] = 0 THEN <<"0">> ELSE U64Digits[<<x[1], x[2], 0, 0>>]

\* the conversion %llu of printf
FormatLLU(x) == IF x = U64Zero THEN <<"0">> ELSE U64Digits[x]

\* "Time is %llu\n", as printf scans it: ordinary characters and one conversion
TimeFormat == <<"T", "i", "m", "e", " ", "i", "s", " ", "%llu", "\n">>

\* the text printf produces: the format scanned left to right, ordinary
\* characters copied and the conversion replaced by the converted argument
Printf(fmt, arg) ==
    LET out[k \in 0..Len(fmt)] ==
            IF k = 0 THEN <<>>
            ELSE out[k - 1] \o
                 (IF fmt[k] = "%llu" THEN FormatLLU(arg) ELSE <<fmt[k]>>)
    IN  out[Len(fmt)]

\* values mach_absolute_time may return
ClockValues ==
    { U64Zero,
      <<9, 0, 0, 0>>,
      <<10, 0, 0, 0>>,
      <<52501, 1883, 0, 0>>,                         \* 123456789
      <<LimbBase - 1, LimbBase - 1, 0, 0>>,          \* 2^32 - 1
      <<0, 0, 1, 0>>,                                \* 2^32
      <<LimbBase - 1, LimbBase - 1, LimbBase - 1, (LimbBase \div 2) - 1>>, \* 2^63 - 1
      <<0, 0, 0, LimbBase \div 2>>,                  \* 2^63
      U64Max }                                       \* 2^64 - 1

(***************************************************************************)
(* Process start: nothing of an earlier run is visible to a new process.   *)
(***************************************************************************)
Fresh ==
    /\ dest = NoPointer
    /\ heap = <<>>
    /\ i = U64Zero
    /\ written = <<>>
    /\ mallocReq = <<>>
    /\ badStores = 0
    /\ time = U64Zero
    /\ clockReads = <<>>
    /\ stdoutBuf = <<>>
    /\ stdout = <<>>
    /\ status = NoStatus

Init ==
    /\ prog \in {"BufferFill", "TimeReader"}
    /\ run = 1
    /\ pc = "main"
    /\ lineBuffered \in BOOLEAN
    /\ prev = <<>>
    /\ Fresh

(***************************************************************************)
(* BufferFill: main of loop.c                                              *)
(***************************************************************************)
\* volatile uint8_t *dest = malloc(BUFSIZE);   -- the allocation succeeds
MallocOk ==
    /\ prog = "BufferFill" /\ pc = "main"
    /\ mallocReq' = Append(mallocReq, MallocSize)
    /\ \E g \in Garbage(MallocSize) : heap' = g
    /\ dest' = Block
    /\ pc' = "for_init"
    /\ UNCHANGED <<prog, run, i, written, badStores, timeVars, lineBuffered, status, prev>>

\* volatile uint8_t *dest = malloc(BUFSIZE);   -- the allocation fails
MallocFail ==
    /\ prog = "BufferFill" /\ pc = "main"
    /\ mallocReq' = Append(mallocReq, MallocSize)
    /\ dest' = NULL
    /\ pc' = "for_init"
    /\ UNCHANGED <<prog, run, heap, i, written, badStores, timeVars, lineBuffered, status, prev>>

\* uint64_t i = 0
ForInit ==
    /\ prog = "BufferFill" /\ pc = "for_init"
    /\ i' = U64Zero
    /\ pc' = "for_test"
    /\ UNCHANGED <<prog, run, dest, heap, written, mallocReq, badStores, timeVars,
                   lineBuffered, status, prev>>

\* i < BUFSIZE holds: enter the body
ForTestTrue ==
    /\ prog = "BufferFill" /\ pc = "for_test"
    /\ LoopCond(i)
    /\ pc' = "body"
    /\ UNCHANGED <<prog, run, fillVars, timeVars, lineBuffered, status, prev>>

\* dest[i] = (uint8_t) i;   -- dest + i is a byte of the block; dest is
\* volatile, so the store is performed
Store ==
    /\ prog = "BufferFill" /\ pc = "body"
    /\ dest = Block /\ U64Offset(i) \in DOMAIN heap
    /\ heap' = StoreByte(heap, i)
    /\ written' = Append(written, U64Offset(i))
    /\ pc' = "for_inc"
    /\ UNCHANGED <<prog, run, dest, i, mallocReq, badStores, timeVars,
                   lineBuffered, status, prev>>

\* dest[i] = (uint8_t) i;   -- dest is null, or dest + i lies outside the
\* block: undefined behaviour. Either the store traps and the process is
\* killed by SIGSEGV, or the store lands in whatever is mapped at that
\* address and the loop goes on.
StoreInvalid ==
    /\ prog = "BufferFill" /\ pc = "body"
    /\ dest = NULL \/ U64Offset(i) \notin DOMAIN heap
    /\ written' = Append(written, U64Offset(i))
    /\ badStores' = badStores + 1
    /\ \/ /\ pc' = "killed"
          /\ status' = SegvStatus
       \/ /\ pc' = "for_inc"
          /\ status' = status
    /\ UNCHANGED <<prog, run, dest, heap, i, mallocReq, timeVars,
                   lineBuffered, prev>>

\* i++
ForInc ==
    /\ prog = "BufferFill" /\ pc = "for_inc"
    /\ i' = U64Inc(i)
    /\ pc' = "for_test"
    /\ UNCHANGED <<prog, run, dest, heap, written, mallocReq, badStores, timeVars,
                   lineBuffered, status, prev>>

\* i < BUFSIZE fails: leave the loop and reach the closing brace of main;
\* the block is not freed.
FillReturn ==
    /\ prog = "BufferFill" /\ pc = "for_test"
    /\ ~LoopCond(i)
    /\ status' = ImplicitReturn
    /\ pc' = "done"
    /\ UNCHANGED <<prog, run, fillVars, timeVars, lineBuffered, prev>>

(***************************************************************************)
(* TimeReader: main of mach_absolute_time.c                                *)
(***************************************************************************)
\* uint64_t time = mach_absolute_time();
ReadClock ==
    /\ prog = "TimeReader" /\ pc = "main"
    /\ \E v \in ClockValues :
          /\ time' = v
          /\ clockReads' = Append(clockReads, v)
    /\ pc' = "printf"
    /\ UNCHANGED <<prog, run, fillVars, stdoutBuf, stdout, lineBuffered, status, prev>>

\* printf("Time is %llu\n", time);  a line-buffered stdout is flushed by the
\* newline that ends the text
CallPrintf ==
    /\ prog = "TimeReader" /\ pc = "printf"
    /\ \/ /\ lineBuffered
          /\ stdout' = stdout \o stdoutBuf \o Printf(TimeFormat, time)
          /\ stdoutBuf' = <<>>
       \/ /\ ~lineBuffered
          /\ stdoutBuf' = stdoutBuf \o Printf(TimeFormat, time)
          /\ stdout' = stdout
    /\ pc' = "return"
    /\ UNCHANGED <<prog, run, fillVars, time, clockReads, lineBuffered, status, prev>>

\* return 0;  exit flushes stdout
TimeReturn ==
    /\ prog = "TimeReader" /\ pc = "return"
    /\ stdout' = stdout \o stdoutBuf
    /\ stdoutBuf' = <<>>
    /\ status' = 0
    /\ pc' = "done"
    /\ UNCHANGED <<prog, run, fillVars, time, clockReads, lineBuffered, prev>>

(***************************************************************************)
(* The program is run a second time, in a new process.                     *)
(***************************************************************************)
Result ==
    [status |-> status, heap |-> heap, dest |-> dest, stdout |-> stdout, time |-> time]

Relaunch ==
    /\ pc \in {"done", "killed"}
    /\ run = 1
    /\ run' = run + 1
    /\ prev' = Append(prev, Result)
    /\ pc' = "main"
    /\ lineBuffered' \in BOOLEAN
    /\ dest' = NoPointer
    /\ heap' = <<>>
    /\ i' = U64Zero
    /\ written' = <<>>
    /\ mallocReq' = <<>>
    /\ badStores' = 0
    /\ time' = U64Zero
    /\ clockReads' = <<>>
    /\ stdoutBuf' = <<>>
    /\ stdout' = <<>>
    /\ status' = NoStatus
    /\ UNCHANGED prog

Next ==
    \/ MallocOk
    \/ MallocFail
    \/ ForInit
    \/ ForTestTrue
    \/ Store
    \/ StoreInvalid
    \/ ForInc
    \/ FillReturn
    \/ ReadClock
    \/ CallPrintf
    \/ TimeReturn
    \/ Relaunch

Spec == Init /\ [][Next]_vars

\* the process is always scheduled until it ends
FairSpec == Spec /\ WF_vars(Next)

(***************************************************************************)
(* Properties                                                              *)
(***************************************************************************)
Filling == prog = "BufferFill"
Allocated == Filling /\ dest = Block
Completed == Filling /\ pc = "done"

\* <<0, 1, ..., n - 1>>
Ramp(n) == [k \in 1..n |-> k - 1]

\* C1: when main of loop.c has run to completion and the allocation
\* succeeded, the block has BUFSIZE bytes and the byte at every offset j of it
\* equals j mod 256.
C1_Completeness ==
    (Completed /\ dest = Block) =>
        /\ DOMAIN heap = 0..(Kilo * Kilo - 1)
        /\ \A j \in DOMAIN heap : heap[j] = j % 256

C1_Witness ==
    /\ Completed /\ dest = Block
    /\ Kilo * Kilo > 256
    /\ heap[Kilo * Kilo - 1] = (Kilo * Kilo - 1) % 256
    /\ heap[256] = 0

\* C3: a run of BufferFill issues exactly one allocation request, of exactly
\* BUFSIZE = Kilo * Kilo bytes, whatever the allocator answers; the loop bound
\* is the same number.
C3_SizeInvariant ==
    Filling =>
        /\ Len(mallocReq) <= 1
        /\ (pc # "main" => mallocReq = <<Kilo * Kilo>>)
        /\ (pc = "done" => i = <<(Kilo * Kilo) % 65536, (Kilo * Kilo) \div 65536, 0, 0>>)

C3_Witness ==
    /\ Completed
    /\ mallocReq = <<Kilo * Kilo>>
    /\ run = 2

C10_InBounds ==
    Filling =>
        /\ i[3] = 0 /\ i[4] = 0 /\ U64Offset(i) <= Kilo * Kilo
        /\ (pc \in {"body", "for_inc", "killed"} => U64Offset(i) < Kilo * Kilo)
        /\ \A k \in 1..Len(written) : written[k] < Kilo * Kilo
        /\ (dest = Block =>
              /\ badStores = 0
              /\ \A k \in 1..Len(written) : written[k] \in DOMAIN heap
              /\ \A k \in 1..Len(written) :
                    written[k] >= 256 => heap[written[k]] = heap[written[k] - 256])

C10_Witness ==
    /\ Allocated /\ pc = "for_inc"
    /\ U64Offset(i) = Kilo * Kilo - 1
    /\ Len(written) = Kilo * Kilo
    /\ heap[U64Offset(i)] = heap[U64Offset(i) - 256]

\* C4: if the allocation fails, the program ends with a non-zero status
\* without entering the loop body and without any store through the null
\* pointer.
C4_FatalOnFailure ==
    (Filling /\ dest = NULL) =>
        /\ pc \notin {"body", "for_inc"}
        /\ written = <<>>
        /\ badStores = 0
        /\ (pc \in {"done", "killed"} => status # 0)

\* C5 has no formula: main of mach_absolute_time.c reads the clock once per
\* run (clockReads never holds two values, see C2), so no run has two readings
\* to compare, and the order of the values is the platform clock's, not the
\* program's.

\* C9: within a run of BufferFill a step changes no byte of the block, except
\* the store of the loop body, which changes at most the one byte at offset i;
\* a byte stored earlier is not changed again, the block keeps its size and
\* dest keeps pointing to it until the process ends, the clock is not read and
\* nothing is written to standard output or to its buffer.
C9_Frame ==
    [][(Filling /\ run' = run) =>
          /\ stdout' = <<>> /\ stdoutBuf' = <<>>
          /\ clockReads' = <<>> /\ time' = time
          /\ (dest # NoPointer => dest' = dest /\ DOMAIN heap' = DOMAIN heap)
          /\ \A j \in DOMAIN heap :
                heap'[j] # heap[j] => (pc = "body" /\ j = U64Offset(i))
          /\ Len(mallocReq') = 1]_vars

C9_Witness ==
    /\ Completed /\ dest = Block
    /\ DOMAIN heap = 0..(Kilo * Kilo - 1)
    /\ heap[0] = 0 /\ heap[1] = 1
    /\ stdout = <<>> /\ stdoutBuf = <<>>

\* C6: a second run of the program starts with nothing of the first run; two
\* completed runs of BufferFill end with identical buffer contents whatever
\* the blocks held when allocated, and two runs of TimeReader that read the
\* same clock value end with the same output and exit status.
C6_Idempotent ==
    /\ (run = 2 /\ pc = "main") => Fresh
    /\ (run = 2 /\ pc = "done") =>
          /\ (Filling /\ dest = Block /\ prev[1].dest = Block /\ prev[1].status = 0)
                => heap = prev[1].heap
          /\ (prog = "TimeReader" /\ time = prev[1].time)
                => (stdout = prev[1].stdout /\ status = prev[1].status)

C6_Witness ==
    /\ run = 2 /\ Completed
    /\ dest = Block /\ prev[1].dest = Block /\ prev[1].status = 0
    /\ heap = prev[1].heap
    /\ Len(written) = Kilo * Kilo

\* C8 (under FairSpec): once the allocation has succeeded, the run reaches the
\* end of main with exit status 0 after exactly BUFSIZE executions of the loop
\* body.
C8_Termination ==
    Allocated ~> (Completed /\ dest = Block /\ status = 0 /\ Len(written) = Kilo * Kilo)

C8_Witness ==
    /\ Completed /\ dest = Block
    /\ status = 0
    /\ Len(written) = Kilo * Kilo
    /\ run = 1

\* the value of a decimal digit character, -1 for any other character
DecValue(c) ==
    CASE c = "0" -> 0 [] c = "1" -> 1 [] c = "2" -> 2 [] c = "3" -> 3 [] c = "4" -> 4
      [] c = "5" -> 5 [] c = "6" -> 6 [] c = "7" -> 7 [] c = "8" -> 8 [] c = "9" -> 9
      [] OTHER -> 0 - 1

\* 10 * x + d on five 16-bit limbs
MulAdd10(x, d) ==
    LET t1 == 10 * x[1] + d
        t2 == 10 * x[2] + (t1 \div 65536)
        t3 == 10 * x[3] + (t2 \div 65536)
        t4 == 10 * x[4] + (t3 \div 65536)
        t5 == 10 * x[5] + (t4 \div 65536)
    IN  <<t1 % 65536, t2 % 65536, t3 % 65536, t4 % 65536, t5 % 65536>>

\* the number a string of decimal digits denotes, on five 16-bit limbs
ParseDec(ds) ==
    LET val[k \in 0..Len(ds)] ==
            IF k = 0 THEN <<0, 0, 0, 0, 0>>
            ELSE MulAdd10(val[k - 1], DecValue(ds[k]))
    IN  val[Len(ds)]

\* out is the one line "Time is <decimal rendering of v>\n"
IsTimeLine(out, v) ==
    /\ Len(out) >= 10
    /\ SubSeq(out, 1, 8) = <<"T", "i", "m", "e", " ", "i", "s", " ">>
    /\ out[Len(out)] = "\n"
    /\ LET ds == SubSeq(out, 9, Len(out) - 1) IN
          /\ Len(ds) \in 1..20
          /\ \A k \in 1..Len(ds) : DecValue(ds[k]) >= 0
          /\ (Len(ds) > 1 => ds[1] # "0")
          /\ ParseDec(ds) = v \o <<0>>

\* C2: TimeReader reads the clock once; whatever 64-bit value v it returns,
\* standard output holds nothing until it holds exactly the line "Time is ",
\* the base-10 rendering of v, newline, and the process ends with that line
\* written, nothing left in the buffer and exit status 0. For v = 0 the line is
\* "Time is 0\n" and for v = 123456789 it is "Time is 123456789\n".
C2_OutputFormat ==
    prog = "TimeReader" =>
        /\ Len(clockReads) <= 1
        /\ (stdout = <<>> \/ IsTimeLine(stdout, time))
        /\ (pc # "done" => status = NoStatus)
        /\ (pc = "done" =>
              /\ clockReads = <<time>>
              /\ IsTimeLine(stdout, time)
              /\ stdoutBuf = <<>>
              /\ status = 0
              /\ (time = <<0, 0, 0, 0>> =>
                    stdout = <<"T", "i", "m", "e", " ", "i", "s", " ", "0", "\n">>)
              /\ (time = <<52501, 1883, 0, 0>> =>
                    stdout = <<"T", "i", "m", "e", " ", "i", "s", " ",
                               "1", "2", "3", "4", "5", "6", "7", "8", "9", "\n">>))

C2_Witness ==
    /\ prog = "TimeReader" /\ pc = "done"
    /\ time = <<65535, 65535, 65535, 65535>>
    /\ stdout = <<"T", "i", "m", "e", " ", "i", "s", " ",
                  "1", "8", "4", "4", "6", "7", "4", "4", "0", "7",
                  "3", "7", "0", "9", "5", "5", "1", "6", "1", "5", "\n">>
    /\ status = 0

====
